---- MODULE Spec2Model ----
(***************************************************************************)
(* Model of the omics ingest lifecycle engine (omics_ingest/common.py and  *)
(* omics_ingest/genomics/illumina.py): the manifest reconciler             *)
(* _compare_manifests, the per-pass hooks (common.post_job with            *)
(* _post_job_run_folder_done, and the Illumina event_handler.post_job),    *)
(* the per-event hook refresh_last_update_metadata and the                 *)
(* initialization hook pre_job.                                            *)
(*                                                                         *)
(* Reading conventions.                                                    *)
(*  - A manifest file is the sequence of its lines; a line is the triple   *)
(*    of its comma separated fields <<size, chksum, path>>.  Sizes stay    *)
(*    strings, as in the code, which never converts them.                  *)
(*  - A path is the sequence of its components.  A local path is           *)
(*    <<".", name>>, a remote path is <<collection, name>>, where the      *)
(*    collection component stands for the collection's absolute path.      *)
(*  - Time is a natural number of clock units.                             *)
(*  - Logging is not state.                                                *)
(*  - Lines 139 and 195 of common.py name variables that are not bound at  *)
(*    that point (chck_path; local_manifest_dest and irods_manifest_dest). *)
(*    The model keeps both readings of each statement: as written, it      *)
(*    raises NameError or UnboundLocalError, which leaves post_job; read   *)
(*    with the files the two preceding steps wrote (local_path and         *)
(*    irods_path), it goes on.  dst_collection stands for the collection's *)
(*    path where the code uses it as a string.                             *)
(*  - Line 142 of common.py starts find without a pipe, so hashdeep reads  *)
(*    its list of files from the hook's own standard input.  The model     *)
(*    keeps two outcomes of a successful build: that input is find's       *)
(*    output (what stdin=p_find.stdout intends), or it is empty.           *)
(*  - Specifications: Spec (one tracked folder, both handlers, events,     *)
(*    crashes), SpecTwo (two tracked folders, common handler), SpecHooks   *)
(*    (hooks of two workers, statement by statement), SpecLive (repeated   *)
(*    passes without failures, with fairness), SpecCmp (the reconciler).   *)
(***************************************************************************)
EXTENDS Integers, Sequences, FiniteSets, TLC

VARIABLES
    cmpLocal,   \* reconciler check: lines of the file at path_local
    cmpIrods,   \* reconciler check: lines of the file at path_irods
    cmpOut,     \* reconciler check: outcome of _compare_manifests (called = FALSE before the call)
    now,            \* the clock, datetime.datetime.now()
    handler,        \* the handler module deployed: "common" or "illumina"
    colls,          \* names of the destination collections under the target root
    srcRoot,        \* names of the run folders under the source root
    ingested,       \* names of the run folders under <parent-name>-INGESTED
    marker,         \* marker[f]: what is_folder_done(f) returns
    localFiles,     \* localFiles[f]: data files of run folder f, name -> <<size, chksum>>
    diskManifests,  \* diskManifests[f]: manifest files present in run folder f
    remoteObjs,     \* remoteObjs[f]: data objects of collection f, name -> <<size, chksum>>
    remoteManifests,\* remoteManifests[f]: manifest objects put into collection f
    lastUpdate,     \* lastUpdate[f]: values of the AVU omics::ingest::last_update
    status,         \* status[f]: value of the AVU omics::ingest::status, or "absent"
    firstSeen,      \* firstSeen[f]: values of the AVU omics::ingest::first_seen
    session,        \* the per-pass hook's iRODS session: "none" or "open"
    pass,           \* the per-pass hook's position and local variables
    tasks           \* tasks[w]: the hook that worker w runs step by step, and its position

cmpVars == <<cmpLocal, cmpIrods, cmpOut>>
envVars == <<handler, colls, marker, localFiles, remoteObjs>>
fsVars == <<srcRoot, ingested, diskManifests>>
avuVars == <<lastUpdate, status, firstSeen>>
lifeVars == <<now, envVars, fsVars, remoteManifests, avuVars, session, pass, tasks>>
vars == <<cmpVars, lifeVars>>

----------------------------------------------------------------------------
(* Bounds *)

\* Longest manifest file, in lines, of the reconciler check.
MaxLines == 2

\* Last instant of the clock.
MaxTime == 3

\* Largest delay_until_at_rest a per-pass hook is called with.
MaxDelay == 2

----------------------------------------------------------------------------
(* Names of the program *)

MANIFEST_LOCAL == "_MANIFEST_LOCAL.txt"
MANIFEST_IRODS == "_MANIFEST_IRODS.txt"

\* Run folders under the source root; a destination collection has the name
\* of its run folder.
Folders == {"r1", "r2"}

\* The destination collection of the reconciler check.
CmpColl == "r1"

\* Workers of the ingest framework that run hooks at the same time.
Workers == {"w1", "w2"}

\* A worker that runs no hook.
NoTask == [pc |-> "idle", f |-> "none", snap |-> {}]

----------------------------------------------------------------------------
(* _compare_manifests *)

\* line.startswith("#") or line.startswith("%"): hashdeep's header lines,
\* e.g. "%%%% size,md5,filename".
IsComment(line) == line[1] \in {"%%%% size", "# size"}

\* str.replace(old, new): every occurrence is replaced.
Replace(path, old, new) ==
    [i \in DOMAIN path |-> IF path[i] = old THEN new ELSE path[i]]

\* The empty dict.
EmptyInfo == [p \in {} |-> <<>>]

\* info[path] = (size, chksum)
DictSet(info, path, value) ==
    [p \in (DOMAIN info) \cup {path} |-> IF p = path THEN value ELSE info[p]]

\* The loop of lines 57-62: comment lines are skipped, every other line is
\* split at its commas and stored under its path as it stands.
RECURSIVE LoadLocalLines(_, _)
LoadLocalLines(info, lines) ==
    IF lines = <<>> THEN info
    ELSE IF IsComment(Head(lines)) THEN LoadLocalLines(info, Tail(lines))
    ELSE LoadLocalLines(
            DictSet(info, Head(lines)[3], <<Head(lines)[1], Head(lines)[2]>>),
            Tail(lines))

\* The loop of lines 65-71: as above, with dest_coll replaced by "." in the
\* path; the entry is stored into the dict the loop is given.
RECURSIVE LoadIrodsLines(_, _, _)
LoadIrodsLines(info, lines, dest_coll) ==
    IF lines = <<>> THEN info
    ELSE IF IsComment(Head(lines)) THEN LoadIrodsLines(info, Tail(lines), dest_coll)
    ELSE LoadIrodsLines(
            DictSet(info, Replace(Head(lines)[3], dest_coll, "."),
                    <<Head(lines)[1], Head(lines)[2]>>),
            Tail(lines), dest_coll)

\* info_local when the comparison starts (line 73): the local entries of
\* lines 55-62, and the remote entries, which line 71 stores into info_local.
InfoLocal(linesLocal, linesIrods, dest_coll) ==
    LoadIrodsLines(LoadLocalLines(EmptyInfo, linesLocal), linesIrods, dest_coll)

\* info_irods when the comparison starts: line 63 creates it empty and no
\* statement stores into it.
InfoIrods(linesLocal, linesIrods, dest_coll) == EmptyInfo

\* The logger.error calls of lines 78-85, one record per call.
Mismatches(info_local, info_irods) ==
    { [kind |-> "size", path |-> p, local |-> info_local[p][1], irods |-> info_irods[p][1]] :
        p \in {q \in (DOMAIN info_local) \cap (DOMAIN info_irods) :
                 info_local[q][1] # info_irods[q][1]} }
    \cup
    { [kind |-> "checksum", path |-> p, local |-> info_local[p][2], irods |-> info_irods[p][2]] :
        p \in {q \in (DOMAIN info_local) \cap (DOMAIN info_irods) :
                 info_local[q][2] # info_irods[q][2]} }

\* Line 87.
ExtraLocalNone(info_local, info_irods) == {}
ExtraLocal(info_local, info_irods) == (DOMAIN info_local) \ (DOMAIN info_irods)

\* Line 94.
ExtraIrods(info_local, info_irods) == (DOMAIN info_irods) \ (DOMAIN info_local)

\* _compare_manifests as a whole: ok = FALSE is the RuntimeError of line 103.
CompareManifests(linesLocal, linesIrods, dest_coll) ==
    LET info_local == InfoLocal(linesLocal, linesIrods, dest_coll)
        info_irods == InfoIrods(linesLocal, linesIrods, dest_coll)
        mismatches == Mismatches(info_local, info_irods)
        extra_local == ExtraLocal(info_local, info_irods)
        extra_irods == ExtraIrods(info_local, info_irods)
    IN  [ called      |-> TRUE,
          ok          |-> mismatches = {} /\ extra_local = {} /\ extra_irods = {},
          mismatches  |-> mismatches,
          extra_local |-> extra_local,
          extra_irods |-> extra_irods ]

\* Before the call.
NotCalled ==
    [ called |-> FALSE, ok |-> FALSE, mismatches |-> {}, extra_local |-> {}, extra_irods |-> {} ]

----------------------------------------------------------------------------
(* The remote store's metadata and the clock *)

\* illumina.py line 35: timedelta(minutes=15).  The clock unit is 15 minutes.
DELAY_UNTIL_AT_REST == 1

\* The loop of lines 121-125 (illumina.py 126-130): the newest stored value.
MaxOfMin(values) == CHOOSE v \in values : \A w \in values : v <= w
MaxOf(values) == CHOOSE v \in values : \A w \in values : w <= v

\* Line 126 (illumina.py 131): now() - (last_update or now()).  The two calls
\* of now() are taken at the same instant.
LastUpdateAge(values, t) == IF values = {} THEN 0 ELSE t - MaxOf(values)

\* Line 132 (illumina.py 132).
AtRestGeq(age, delay) == age >= delay
AtRest(age, delay) == age > delay

\* Lines 128 and 132: the pass goes on to the manifests.
ProceedsWithoutMarker(isDone, age, delay) == AtRest(age, delay)
Proceeds(isDone, age, delay) == isDone /\ AtRest(age, delay)

----------------------------------------------------------------------------
(* The manifest files the external commands write *)

\* Names of data files, in the order find lists them.
FileOrder == <<"a">>

\* hashdeep's entry for a manifest file an earlier pass left in the folder.
LeftoverEntry == <<"7", "m">>

\* Lines 141-154: find . -type f -and -not -path ./_MANIFEST_LOCAL.txt, piped
\* into hashdeep: the header, then one line per file found.  Line 142 starts
\* find without a pipe, so stdin=p_find.stdout of line 150 is None and
\* hashdeep reads its list of files from the standard input of the hook's own
\* process: HashdeepLines is the manifest when that input is find's output,
\* HashdeepHeader the manifest when that input is empty.
FoundFiles(f) ==
    [n \in (DOMAIN localFiles[f]) \cup (diskManifests[f] \ {MANIFEST_LOCAL}) |->
        IF n \in DOMAIN localFiles[f] THEN localFiles[f][n] ELSE LeftoverEntry]

RECURSIVE LinesOf(_, _, _)
LinesOf(files, order, root) ==
    IF order = <<>> THEN <<>>
    ELSE (IF Head(order) \in DOMAIN files
            THEN << <<files[Head(order)][1], files[Head(order)][2], <<root, Head(order)>>>> >>
            ELSE <<>>)
         \o LinesOf(files, Tail(order), root)

HashdeepHeader == << <<"%%%% size", "md5", <<"filename">>>> >>

HashdeepLines(f) ==
    HashdeepHeader
    \o LinesOf(FoundFiles(f), FileOrder \o <<MANIFEST_LOCAL, MANIFEST_IRODS>>, ".")

\* Lines 169-189: the two iquest queries: the objects of the collection other
\* than the two manifest objects, then the objects of its subcollections
\* (none in this model).
IquestLines(f) == LinesOf(remoteObjs[f], FileOrder, f)

----------------------------------------------------------------------------
(* The per-pass hook of common.py: post_job and _post_job_run_folder_done *)

\* sorted(...) of line 250.
FolderOrder == <<"r1", "r2">>

\* Destination collections under the target root, by name (line 249).
dst_collections == colls

\* No pass is running.
Idle ==
    [ pc |-> "idle", queue |-> <<>>, cur |-> "none", delay |-> 0, age |-> 0,
      isDone |-> "n/a", cmp |-> "n/a", renamed |-> "n/a",
      manLocal |-> <<>>, manIrods |-> <<>>,
      fault |-> "n/a",   \* the external command or statement that failed, if any
      exit |-> "n/a" ]   \* how the last call of the hook ended

\* The order of the statements of lines 195-213: compare, put the local
\* manifest, put the iRODS manifest, rename, set status.
FinalizeOrderRenameFirst == <<"compare", "rename", "put_local", "put_irods", "set_status", "loop">>
FinalizeOrder == <<"compare", "put_local", "put_irods", "rename", "set_status", "loop">>

\* The statement that follows statement p in lines 195-213.
After(p) ==
    FinalizeOrder[1 + CHOOSE i \in 1..(Len(FinalizeOrder) - 1) : FinalizeOrder[i] = p]

Except(fn, f, v) == [fn EXCEPT ![f] = v]

\* The source root, meta["root"] of post_job (line 246).
SrcRootPath == <<"data", "RunsA">>

\* pathlib: parent and name of a path.
Parent(path) == SubSeq(path, 1, Len(path) - 1)
Name(path) == path[Len(path)]

\* Lines 42-46 (illumina.py 38-42).
to_ingested_path_same(orig_path) == orig_path
to_ingested_path(orig_path) ==
    LET ingested_base ==
            Parent(Parent(orig_path)) \o <<Name(Parent(orig_path)) \o "-INGESTED">>
    IN  ingested_base \o <<Name(orig_path)>>

\* Lines 205-209 (illumina.py 138-142): src_folder.rename(new_src_folder).
\* The folder is listed under the source root as long as its parent is the
\* source root, and under the ingested tree once its parent is that tree.
MoveFolder(f) ==
    LET new_src_folder == to_ingested_path(SrcRootPath \o <<f>>)
    IN  /\ srcRoot' = IF Parent(new_src_folder) = SrcRootPath /\ Name(new_src_folder) = f
                        THEN srcRoot ELSE srcRoot \ {f}
        /\ ingested' = IF Parent(new_src_folder) =
                            Parent(SrcRootPath) \o <<Name(SrcRootPath) \o "-INGESTED">>
                         THEN ingested \cup {Name(new_src_folder)} ELSE ingested

\* Lines 34-39: the session after the with block of line 247 is left, by
\* reaching its end ("returned") or by an exception ("raised"): the finally
\* clause calls cleanup() either way.
cleanuping_without_finally(left) == IF left = "returned" THEN "none" ELSE "open"
cleanuping(left) == "none"

\* Lines 246-249: the session is opened, the folders are listed.
PostJobStart(delay_until_at_rest) ==
    /\ handler = "common"
    /\ pass.pc = "idle"
    /\ session' = "open"
    /\ pass' = [Idle EXCEPT !.pc = "loop",
                            !.queue = SelectSeq(FolderOrder, LAMBDA f : f \in srcRoot),
                            !.delay = delay_until_at_rest]
    /\ UNCHANGED <<now, envVars, fsVars, remoteManifests, avuVars, cmpVars, tasks>>

\* Lines 250-261: the next folder of the list; cleanup() when the list ends
\* (lines 34-39).
PostJobLoop ==
    /\ pass.pc = "loop"
    /\ IF pass.queue = <<>>
         THEN /\ pass' = [Idle EXCEPT !.exit = "returned"]
              /\ session' = cleanuping("returned")
         ELSE /\ pass' = [pass EXCEPT
                   !.queue = Tail(pass.queue),
                   !.cur = Head(pass.queue),
                   !.pc = IF Head(pass.queue) \in dst_collections THEN "check" ELSE "loop",
                   !.age = 0, !.isDone = "n/a", !.cmp = "n/a", !.renamed = "n/a",
                   !.manLocal = <<>>, !.manIrods = <<>>, !.fault = "n/a"]
              /\ UNCHANGED session
    /\ UNCHANGED <<now, envVars, fsVars, remoteManifests, avuVars, cmpVars, tasks>>

\* Lines 119-136 and 214-218: the age of the last update, the marker, the
\* at-rest test.
CheckAtRest ==
    /\ pass.pc = "check"
    /\ LET age == LastUpdateAge(lastUpdate[pass.cur], now)
           isDone == marker[pass.cur]
       IN  pass' = [pass EXCEPT
                !.age = age,
                !.isDone = IF isDone THEN "yes" ELSE "no",
                !.pc = IF Proceeds(isDone, age, pass.delay) THEN "build_local" ELSE "loop"]
    /\ UNCHANGED <<now, envVars, fsVars, remoteManifests, avuVars, session, cmpVars, tasks>>

\* An exception that leaves post_job: cleanup() runs (lines 34-39), the
\* folders left in the list are not visited.
Raised == [Idle EXCEPT !.exit = "raised"]

\* Lines 138-162: the local manifest.  The log call of line 139 names
\* chck_path (NameError, before the file is opened).  open() creates the
\* file; hashdeep failing is caught, the file removed and the folder left for
\* a later pass; find failing raises CalledProcessError with one argument, a
\* TypeError that no handler catches.
BuildLocalOutcomes ==
    {"name_error", "ok", "ok_empty_stdin", "hashdeep_fails", "find_fails"}

BuildLocal(outcome) ==
    /\ pass.pc = "build_local"
    /\ CASE outcome = "name_error" ->
              /\ UNCHANGED diskManifests
              /\ pass' = [Raised EXCEPT !.fault = outcome]
              /\ session' = cleanuping("raised")
         [] outcome = "ok" ->
              /\ diskManifests' = Except(diskManifests, pass.cur,
                                         diskManifests[pass.cur] \cup {MANIFEST_LOCAL})
              /\ pass' = [pass EXCEPT !.manLocal = HashdeepLines(pass.cur),
                                      !.pc = "build_irods"]
              /\ UNCHANGED session
         [] outcome = "ok_empty_stdin" ->
              /\ diskManifests' = Except(diskManifests, pass.cur,
                                         diskManifests[pass.cur] \cup {MANIFEST_LOCAL})
              /\ pass' = [pass EXCEPT !.manLocal = HashdeepHeader, !.pc = "build_irods"]
              /\ UNCHANGED session
         [] outcome = "hashdeep_fails" ->
              /\ diskManifests' = Except(diskManifests, pass.cur,
                                         diskManifests[pass.cur] \ {MANIFEST_LOCAL})
              /\ pass' = [pass EXCEPT !.pc = "loop", !.fault = outcome]
              /\ UNCHANGED session
         [] outcome = "find_fails" ->
              /\ diskManifests' = Except(diskManifests, pass.cur,
                                         diskManifests[pass.cur] \cup {MANIFEST_LOCAL})
              /\ pass' = [Raised EXCEPT !.fault = outcome]
              /\ session' = cleanuping("raised")
    /\ UNCHANGED <<now, envVars, srcRoot, ingested, remoteManifests, avuVars, cmpVars, tasks>>

\* Lines 164-193: the manifest of the remote side.
BuildIrods(outcome) ==
    /\ pass.pc = "build_irods"
    /\ CASE outcome = "ok" ->
              /\ diskManifests' = Except(diskManifests, pass.cur,
                                         diskManifests[pass.cur] \cup {MANIFEST_IRODS})
              /\ pass' = [pass EXCEPT !.manIrods = IquestLines(pass.cur),
                                      !.pc = "compare"]
         [] outcome = "iquest_fails" ->
              /\ diskManifests' = Except(diskManifests, pass.cur,
                                         diskManifests[pass.cur] \ {MANIFEST_IRODS})
              /\ pass' = [pass EXCEPT !.pc = "loop", !.fault = outcome]
    /\ UNCHANGED <<now, envVars, srcRoot, ingested, remoteManifests, avuVars, session, cmpVars, tasks>>

\* Lines 102-103 seen from line 195: the call returns (TRUE) or raises.
ReconcilesAlways(linesLocal, linesIrods, dest_coll) == TRUE
Reconciles(linesLocal, linesIrods, dest_coll) ==
    CompareManifests(linesLocal, linesIrods, dest_coll).ok

\* Line 195: the two manifest files are compared; RuntimeError leaves
\* post_job, and so does the UnboundLocalError of the call's arguments.
Compare(outcome) ==
    /\ pass.pc = "compare"
    /\ IF outcome = "called" /\ Reconciles(pass.manLocal, pass.manIrods, pass.cur)
         THEN /\ pass' = [pass EXCEPT !.cmp = "ok", !.pc = After("compare")]
              /\ UNCHANGED session
         ELSE /\ pass' = [Raised EXCEPT
                        !.cmp = IF outcome = "called" THEN "raised" ELSE "n/a",
                        !.fault = IF outcome = "called" THEN "mismatch" ELSE outcome]
              /\ session' = cleanuping("raised")
    /\ UNCHANGED <<now, envVars, fsVars, remoteManifests, avuVars, cmpVars, tasks>>

\* Lines 197-199 and 201-203: data_objects.put, then ichksum; either may
\* raise, and the exception leaves post_job.
PutManifest(step, name, outcome) ==
    /\ pass.pc = step
    /\ remoteManifests' =
          IF outcome = "put_fails" THEN remoteManifests
          ELSE Except(remoteManifests, pass.cur, remoteManifests[pass.cur] \cup {name})
    /\ IF outcome = "ok"
         THEN /\ pass' = [pass EXCEPT !.pc = After(step)]
              /\ UNCHANGED session
         ELSE /\ pass' = [Raised EXCEPT !.fault = outcome]
              /\ session' = cleanuping("raised")
    /\ UNCHANGED <<now, envVars, fsVars, avuVars, cmpVars, tasks>>

PutLocal(outcome) == PutManifest("put_local", MANIFEST_LOCAL, outcome)
PutIrods(outcome) == PutManifest("put_irods", MANIFEST_IRODS, outcome)

\* Lines 205-211: the folder is renamed into the ingested tree; OSError is
\* logged and the function goes on.
Rename(outcome) ==
    /\ pass.pc = "rename"
    /\ IF outcome = "ok"
         THEN MoveFolder(pass.cur)
         ELSE UNCHANGED <<srcRoot, ingested>>
    /\ pass' = [pass EXCEPT !.renamed = outcome, !.pc = After("rename")]
    /\ UNCHANGED <<now, envVars, diskManifests, remoteManifests, avuVars, session, cmpVars, tasks>>

\* Line 213.
SetStatus ==
    /\ pass.pc = "set_status"
    /\ status' = Except(status, pass.cur, "complete")
    /\ pass' = [pass EXCEPT !.pc = After("set_status")]
    /\ UNCHANGED <<now, envVars, fsVars, remoteManifests, lastUpdate, firstSeen, session, cmpVars, tasks>>

\* The process running the pass is killed: nothing of the pass is left but
\* what it wrote.
Crash ==
    /\ pass.pc # "idle"
    /\ pass' = [Idle EXCEPT !.exit = "killed"]
    /\ session' = "none"
    /\ UNCHANGED <<now, envVars, fsVars, remoteManifests, avuVars, cmpVars, tasks>>

----------------------------------------------------------------------------
(* The per-pass hook of illumina.py: event_handler.post_job *)

\* illumina.py lines 124-132 and 145-149: the root is the run folder, the
\* target its collection.
IlluminaPostJobStart(f) ==
    /\ handler = "illumina"
    /\ pass.pc = "idle"
    /\ f \in srcRoot \cap dst_collections
    /\ session' = "open"
    /\ LET age == LastUpdateAge(lastUpdate[f], now)
       IN  pass' = [Idle EXCEPT
                !.cur = f, !.delay = DELAY_UNTIL_AT_REST, !.age = age,
                !.pc = IF AtRest(age, DELAY_UNTIL_AT_REST) THEN "il_rename" ELSE "il_end"]
    /\ UNCHANGED <<now, envVars, fsVars, remoteManifests, avuVars, cmpVars, tasks>>

\* illumina.py lines 137-144.
IlluminaRename(outcome) ==
    /\ pass.pc = "il_rename"
    /\ IF outcome = "ok"
         THEN MoveFolder(pass.cur)
         ELSE UNCHANGED <<srcRoot, ingested>>
    /\ pass' = [pass EXCEPT !.renamed = outcome, !.pc = "il_end"]
    /\ UNCHANGED <<now, envVars, diskManifests, remoteManifests, avuVars, session, cmpVars, tasks>>

\* illumina.py line 124: the with block ends, cleanup() runs.
IlluminaPostJobEnd ==
    /\ pass.pc = "il_end"
    /\ pass' = [Idle EXCEPT !.exit = "returned"]
    /\ session' = "none"
    /\ UNCHANGED <<now, envVars, fsVars, remoteManifests, avuVars, cmpVars, tasks>>

----------------------------------------------------------------------------
(* The per-event hooks and the initialization hooks *)

\* common.py lines 264-279: called for a file of run folder f that was
\* created or updated.
refresh_last_update_metadata(f) ==
    /\ handler = "common"
    /\ f \in srcRoot \cap dst_collections
    /\ lastUpdate' = Except(lastUpdate, f, {now})
    /\ status' = Except(status, f, "running")
    /\ UNCHANGED <<now, envVars, fsVars, remoteManifests, firstSeen, session, pass, cmpVars, tasks>>

\* illumina.py lines 92-106.
IlluminaPostCreateOrUpdate(f) ==
    /\ handler = "illumina"
    /\ f \in srcRoot \cap dst_collections
    /\ lastUpdate' = Except(lastUpdate, f, {now})
    /\ UNCHANGED <<now, envVars, fsVars, remoteManifests, status, firstSeen, session, pass, cmpVars, tasks>>

\* common.py lines 221-235 and illumina.py lines 114-120.
PreJob ==
    /\ firstSeen' = [f \in Folders |->
          IF f \in srcRoot \cap dst_collections /\ firstSeen[f] = {}
            THEN {now} ELSE firstSeen[f]]
    /\ firstSeen' # firstSeen
    /\ UNCHANGED <<now, envVars, fsVars, remoteManifests, lastUpdate, status, session, pass, cmpVars, tasks>>

----------------------------------------------------------------------------
(* The environment *)

Tick ==
    /\ now < MaxTime
    /\ now' = now + 1
    /\ UNCHANGED <<envVars, fsVars, remoteManifests, avuVars, session, pass, cmpVars, tasks>>

\* The instrument writes the completion marker of run folder f.
WriteMarker(f) ==
    /\ f \in srcRoot
    /\ ~marker[f]
    /\ marker' = Except(marker, f, TRUE)
    /\ UNCHANGED <<now, handler, colls, localFiles, remoteObjs, fsVars, remoteManifests,
                   avuVars, session, pass, cmpVars, tasks>>

----------------------------------------------------------------------------
(* Specification of the lifecycle *)

NoFiles == [n \in {} |-> <<>>]
OneFile(size, chksum) == [n \in {"a"} |-> <<size, chksum>>]

\* Folder r1 is tracked: it has a destination collection, any data on either
\* side and any last_update history.  Folder r2 has no destination collection.
Init ==
    /\ cmpLocal = <<>> /\ cmpIrods = <<>> /\ cmpOut = NotCalled
    /\ now = 1
    /\ handler \in {"common", "illumina"}
    /\ colls = {"r1"}
    /\ srcRoot = Folders
    /\ ingested = {}
    /\ marker = [f \in Folders |-> FALSE]
    /\ \E l \in {NoFiles, OneFile("10", "x")} :
          localFiles = [f \in Folders |-> IF f = "r1" THEN l ELSE NoFiles]
    /\ \E r \in {NoFiles, OneFile("10", "x"), OneFile("11", "x")} :
          remoteObjs = [f \in Folders |-> IF f = "r1" THEN r ELSE NoFiles]
    /\ diskManifests = [f \in Folders |-> {}]
    /\ remoteManifests = [f \in Folders |-> {}]
    /\ \E lu \in SUBSET {0, 1} :
          lastUpdate = [f \in Folders |-> IF f = "r1" THEN lu ELSE {}]
    /\ status = [f \in Folders |-> "absent"]
    /\ firstSeen = [f \in Folders |-> {}]
    /\ session = "none"
    /\ pass = Idle
    /\ tasks = [w \in Workers |-> NoTask]

Next ==
    \/ \E d \in 0..MaxDelay : PostJobStart(d)
    \/ PostJobLoop
    \/ CheckAtRest
    \/ \E o \in BuildLocalOutcomes : BuildLocal(o)
    \/ \E o \in {"ok", "iquest_fails"} : BuildIrods(o)
    \/ \E o \in {"called", "unbound_local"} : Compare(o)
    \/ \E o \in {"ok", "put_fails", "ichksum_fails"} : PutLocal(o)
    \/ \E o \in {"ok", "put_fails", "ichksum_fails"} : PutIrods(o)
    \/ \E o \in {"ok", "failed"} : Rename(o)
    \/ SetStatus
    \/ Crash
    \/ \E f \in Folders : IlluminaPostJobStart(f)
    \/ \E o \in {"ok", "failed"} : IlluminaRename(o)
    \/ IlluminaPostJobEnd
    \/ \E f \in Folders : refresh_last_update_metadata(f)
    \/ \E f \in Folders : IlluminaPostCreateOrUpdate(f)
    \/ PreJob
    \/ Tick
    \/ \E f \in Folders : WriteMarker(f)

Spec == Init /\ [][Next]_vars

----------------------------------------------------------------------------
(* Specification of one deployment of the common handler with two tracked  *)
(* run folders, both marked done, and no file event                        *)

TwoInit ==
    /\ cmpLocal = <<>> /\ cmpIrods = <<>> /\ cmpOut = NotCalled
    /\ now = 1
    /\ handler = "common"
    /\ colls = Folders
    /\ srcRoot = Folders
    /\ ingested = {}
    /\ marker = [f \in Folders |-> TRUE]
    /\ localFiles \in [Folders -> {NoFiles, OneFile("10", "x")}]
    /\ remoteObjs \in [Folders -> {NoFiles, OneFile("10", "x"), OneFile("11", "x")}]
    /\ diskManifests = [f \in Folders |-> {}]
    /\ remoteManifests = [f \in Folders |-> {}]
    /\ lastUpdate = [f \in Folders |-> {0}]
    /\ status = [f \in Folders |-> "running"]
    /\ firstSeen = [f \in Folders |-> {0}]
    /\ session = "none"
    /\ pass = Idle
    /\ tasks = [w \in Workers |-> NoTask]

TwoNext ==
    \/ \E d \in 0..MaxDelay : PostJobStart(d)
    \/ PostJobLoop
    \/ CheckAtRest
    \/ \E o \in BuildLocalOutcomes : BuildLocal(o)
    \/ \E o \in {"ok", "iquest_fails"} : BuildIrods(o)
    \/ \E o \in {"called", "unbound_local"} : Compare(o)
    \/ \E o \in {"ok", "put_fails", "ichksum_fails"} : PutLocal(o)
    \/ \E o \in {"ok", "put_fails", "ichksum_fails"} : PutIrods(o)
    \/ \E o \in {"ok", "failed"} : Rename(o)
    \/ SetStatus
    \/ Tick

SpecTwo == TwoInit /\ [][TwoNext]_vars

----------------------------------------------------------------------------
(* The initialization hook and the Illumina per-event hook, statement by   *)
(* statement, run by several workers                                       *)

\* common.py lines 228-230, illumina.py lines 118-119: get_all(KEY_FIRST_SEEN)
\* is read and tested.
PreJobRead(w, f) ==
    /\ tasks[w].pc = "idle"
    /\ f \in srcRoot \cap dst_collections
    /\ tasks' = Except(tasks, w,
          IF firstSeen[f] = {} THEN [pc |-> "pre_write", f |-> f, snap |-> {}] ELSE NoTask)
    /\ UNCHANGED <<now, envVars, fsVars, remoteManifests, avuVars, session, pass, cmpVars>>

\* illumina.py line 120: metadata.add keeps the values stored;
\* common.py lines 231-233: metadata[KEY] = ... replaces them.
FirstSeenWritten(values, t) ==
    IF handler = "illumina" THEN values \cup {t} ELSE {t}

PreJobWrite(w) ==
    /\ tasks[w].pc = "pre_write"
    /\ firstSeen' = Except(firstSeen, tasks[w].f, FirstSeenWritten(firstSeen[tasks[w].f], now))
    /\ tasks' = Except(tasks, w, NoTask)
    /\ UNCHANGED <<now, envVars, fsVars, remoteManifests, lastUpdate, status, session, pass,
                   cmpVars>>

\* illumina.py lines 100-103: get_all(KEY_LAST_UPDATE) is read.
EventRead(w, f) ==
    /\ handler = "illumina"
    /\ tasks[w].pc = "idle"
    /\ f \in srcRoot \cap dst_collections
    /\ tasks' = Except(tasks, w, [pc |-> "ev_remove", f |-> f, snap |-> lastUpdate[f]])
    /\ UNCHANGED <<now, envVars, fsVars, remoteManifests, avuVars, session, pass, cmpVars>>

\* illumina.py lines 103-104: one value of the list read is removed; the
\* catalog returns the list in no stated order.  Removing a value that
\* another worker removed already raises, and the hook ends.
EventRemove(w, v) ==
    /\ tasks[w].pc = "ev_remove"
    /\ v \in tasks[w].snap
    /\ IF v \in lastUpdate[tasks[w].f]
         THEN /\ lastUpdate' = Except(lastUpdate, tasks[w].f, lastUpdate[tasks[w].f] \ {v})
              /\ tasks' = Except(tasks, w, [tasks[w] EXCEPT !.snap = tasks[w].snap \ {v}])
         ELSE /\ UNCHANGED lastUpdate
              /\ tasks' = Except(tasks, w, NoTask)
    /\ UNCHANGED <<now, envVars, fsVars, remoteManifests, status, firstSeen, session, pass,
                   cmpVars>>

\* illumina.py line 106: the fresh timestamp is added.
EventAdd(w) ==
    /\ tasks[w].pc = "ev_remove"
    /\ tasks[w].snap = {}
    /\ lastUpdate' = Except(lastUpdate, tasks[w].f, lastUpdate[tasks[w].f] \cup {now})
    /\ tasks' = Except(tasks, w, NoTask)
    /\ UNCHANGED <<now, envVars, fsVars, remoteManifests, status, firstSeen, session, pass,
                   cmpVars>>

HooksTick ==
    /\ now < MaxTime
    /\ now' = now + 1
    /\ UNCHANGED <<envVars, fsVars, remoteManifests, avuVars, session, pass, cmpVars, tasks>>

HooksInit ==
    /\ cmpLocal = <<>> /\ cmpIrods = <<>> /\ cmpOut = NotCalled
    /\ now = 0
    /\ handler \in {"common", "illumina"}
    /\ colls = {"r1"}
    /\ srcRoot = Folders
    /\ ingested = {}
    /\ marker = [f \in Folders |-> FALSE]
    /\ localFiles = [f \in Folders |-> NoFiles]
    /\ remoteObjs = [f \in Folders |-> NoFiles]
    /\ diskManifests = [f \in Folders |-> {}]
    /\ remoteManifests = [f \in Folders |-> {}]
    /\ lastUpdate = [f \in Folders |-> {}]
    /\ status = [f \in Folders |-> "absent"]
    /\ firstSeen = [f \in Folders |-> {}]
    /\ session = "none"
    /\ pass = Idle
    /\ tasks = [w \in Workers |-> NoTask]

HooksNext ==
    \/ \E w \in Workers, f \in Folders : PreJobRead(w, f)
    \/ \E w \in Workers : PreJobWrite(w)
    \/ \E w \in Workers, f \in Folders : EventRead(w, f)
    \/ \E w \in Workers, v \in 0..MaxTime : EventRemove(w, v)
    \/ \E w \in Workers : EventAdd(w)
    \/ \E f \in Folders : refresh_last_update_metadata(f)
    \/ HooksTick

SpecHooks == HooksInit /\ [][HooksNext]_vars

----------------------------------------------------------------------------
(* Repeated passes over a folder that is complete and correctly replicated, *)
(* with every external command and the rename succeeding                    *)

LiveInit ==
    /\ cmpLocal = <<>> /\ cmpIrods = <<>> /\ cmpOut = NotCalled
    /\ now = 0
    /\ handler = "common"
    /\ colls = {"r1"}
    /\ srcRoot = Folders
    /\ ingested = {}
    /\ marker = [f \in Folders |-> f = "r1"]
    /\ \E l \in {NoFiles, OneFile("10", "x")} :
          /\ localFiles = [f \in Folders |-> IF f = "r1" THEN l ELSE NoFiles]
          /\ remoteObjs = localFiles
    /\ diskManifests = [f \in Folders |-> {}]
    /\ remoteManifests = [f \in Folders |-> {}]
    /\ lastUpdate = [f \in Folders |-> IF f = "r1" THEN {0} ELSE {}]
    /\ status = [f \in Folders |-> IF f = "r1" THEN "running" ELSE "absent"]
    /\ firstSeen = [f \in Folders |-> IF f = "r1" THEN {0} ELSE {}]
    /\ session = "none"
    /\ pass = Idle
    /\ tasks = [w \in Workers |-> NoTask]

\* The steps of the per-pass hook when nothing outside it fails.
LivePass ==
    \/ \E d \in 0..MaxDelay : PostJobStart(d)
    \/ PostJobLoop
    \/ CheckAtRest
    \/ BuildLocal("ok")
    \/ BuildIrods("ok")
    \/ Compare("called")
    \/ PutLocal("ok")
    \/ PutIrods("ok")
    \/ Rename("ok")
    \/ SetStatus

LiveNext == LivePass \/ Tick

\* The framework calls the per-pass hook again and again and each call runs
\* on; time passes.
SpecLive == LiveInit /\ [][LiveNext]_vars /\ WF_vars(LivePass) /\ WF_vars(Tick)

----------------------------------------------------------------------------
(* Specification of the reconciler alone: any two manifest files, compared *)

\* Lines of a local manifest (hashdeep's output for the files under ".").
CmpLocalLines ==
    { <<"%%%% size", "md5", <<"filename">>>>,
      <<"10", "x", <<".", "a">>>>,
      <<"5", "y", <<".", "b">>>> }

\* Lines of a remote manifest (iquest's output for the objects of CmpColl).
CmpIrodsLines ==
    { <<"10", "x", <<CmpColl, "a">>>>,
      <<"11", "x", <<CmpColl, "a">>>>,
      <<"10", "z", <<CmpColl, "a">>>>,
      <<"5", "y", <<CmpColl, "b">>>>,
      <<"5", "y", <<CmpColl, "c">>>> }

SeqsUpTo(S, n) == UNION { [1..k -> S] : k \in 0..n }

CmpInit ==
    /\ cmpLocal \in SeqsUpTo(CmpLocalLines, MaxLines)
    /\ cmpIrods \in SeqsUpTo(CmpIrodsLines, MaxLines)
    /\ cmpOut = NotCalled
    /\ now = 0
    /\ handler = "common"
    /\ colls = {}
    /\ srcRoot = {}
    /\ ingested = {}
    /\ marker = [f \in Folders |-> FALSE]
    /\ localFiles = [f \in Folders |-> NoFiles]
    /\ remoteObjs = [f \in Folders |-> NoFiles]
    /\ diskManifests = [f \in Folders |-> {}]
    /\ remoteManifests = [f \in Folders |-> {}]
    /\ lastUpdate = [f \in Folders |-> {}]
    /\ status = [f \in Folders |-> "absent"]
    /\ firstSeen = [f \in Folders |-> {}]
    /\ session = "none"
    /\ pass = Idle
    /\ tasks = [w \in Workers |-> NoTask]

CmpRun ==
    /\ ~cmpOut.called
    /\ cmpOut' = CompareManifests(cmpLocal, cmpIrods, CmpColl)
    /\ UNCHANGED <<cmpLocal, cmpIrods, lifeVars>>

CmpNext == CmpRun

SpecCmp == CmpInit /\ [][CmpNext]_vars

----------------------------------------------------------------------------
(* Claims about the reconciler, checked under SpecCmp *)

\* Stripping the destination-collection prefix of a remote path.
StripPrefix(path, dest_coll) ==
    IF Len(path) > 0 /\ path[1] = dest_coll THEN <<".">> \o Tail(path) ELSE path

\* The path -> (size, chksum) map a manifest file states, its remote paths prefix-stripped when strip is TRUE.
RECURSIVE StatedMap(_, _, _)
StatedMap(lines, dest_coll, strip) ==
    IF lines = <<>> THEN EmptyInfo
    ELSE LET last == lines[Len(lines)]
             rest == StatedMap(SubSeq(lines, 1, Len(lines) - 1), dest_coll, strip)
         IN  IF IsComment(last) THEN rest
             ELSE DictSet(rest,
                          IF strip THEN StripPrefix(last[3], dest_coll) ELSE last[3],
                          <<last[1], last[2]>>)

\* The local map and the prefix-stripped remote map of the two files compared.
StatedLocal == StatedMap(cmpLocal, CmpColl, FALSE)
StatedRemote == StatedMap(cmpIrods, CmpColl, TRUE)

\* C4: reconciler soundness. Whenever _compare_manifests returns without
\* raising, the local map and the prefix-stripped remote map are identical.
C4_Soundness ==
    (cmpOut.called /\ cmpOut.ok) => StatedLocal = StatedRemote

\* C4 witness: a call that returned without raising, on a local manifest file
\* that has lines.
C4_Witness ==
    cmpOut.called /\ cmpOut.ok /\ Len(cmpLocal) > 0

\* C5: reconciler completeness. Whenever the local map and the
\* prefix-stripped remote map are identical, also when they are not empty,
\* _compare_manifests does not raise.
C5_Completeness ==
    (cmpOut.called /\ StatedLocal = StatedRemote) => cmpOut.ok

\* C6: for every path in both manifests whose size or checksum differs,
\* reconciliation fails and a mismatch for that path is recorded that cites
\* the local and the remote value.
C6_MismatchReported ==
    cmpOut.called =>
        \A p \in (DOMAIN StatedLocal) \cap (DOMAIN StatedRemote) :
            /\ StatedLocal[p][1] # StatedRemote[p][1] =>
                 /\ ~cmpOut.ok
                 /\ [kind |-> "size", path |-> p, local |-> StatedLocal[p][1],
                     irods |-> StatedRemote[p][1]] \in cmpOut.mismatches
            /\ StatedLocal[p][2] # StatedRemote[p][2] =>
                 /\ ~cmpOut.ok
                 /\ [kind |-> "checksum", path |-> p, local |-> StatedLocal[p][2],
                     irods |-> StatedRemote[p][2]] \in cmpOut.mismatches

\* C7: the reported extra_local is exactly the set of paths only in the local
\* manifest, the reported extra_remote exactly the set of paths only in the
\* prefix-stripped remote manifest, and reconciliation fails when either is
\* not empty.
C7_ExtrasExact ==
    cmpOut.called =>
        /\ cmpOut.extra_local = (DOMAIN StatedLocal) \ (DOMAIN StatedRemote)
        /\ cmpOut.extra_irods = (DOMAIN StatedRemote) \ (DOMAIN StatedLocal)
        /\ (cmpOut.extra_local # {} \/ cmpOut.extra_irods # {}) => ~cmpOut.ok

----------------------------------------------------------------------------
(* Claims about the lifecycle, checked under Spec *)

C2_ManifestsBeforeRename ==
    handler = "common" =>
        \A f \in ingested : {MANIFEST_LOCAL, MANIFEST_IRODS} \subseteq remoteManifests[f]

\* C2 witness: the common per-pass hook has relocated run folder r1.
C2_Witness ==
    handler = "common" /\ "r1" \in ingested

\* C3: under either handler, a per-pass hook relocates a run folder only if
\* in that same pass is_folder_done returned true, the age of the last
\* update exceeded the delay, and the manifests reconciled with zero diffs.
C3_RelocationGuarded ==
    [][ \A f \in Folders :
          (f \in srcRoot /\ f \notin srcRoot') =>
              /\ pass.cur = f
              /\ pass.isDone = "yes"
              /\ pass.age > pass.delay
              /\ pass.cmp = "ok" ]_vars

\* The step is the at-rest check of the pass (not its crash).
IsCheckStep == pass.pc = "check" /\ pass' # pass /\ pass'.pc # "idle"

\* C8: when is_folder_done returns false, the pass defers the folder whatever
\* the age of the last update: no manifest is built, no object put, status
\* and the folder are left as they are.
C8_NoMarkerDefers ==
    [][ (IsCheckStep /\ ~marker[pass.cur]) =>
            /\ pass'.pc = "loop"
            /\ pass'.manLocal = <<>> /\ pass'.manIrods = <<>>
            /\ diskManifests' = diskManifests
            /\ remoteManifests' = remoteManifests
            /\ status' = status
            /\ srcRoot' = srcRoot /\ ingested' = ingested ]_vars

\* C8 witness: a folder deferred for its missing marker although the age of
\* its last update exceeds the delay.
C8_Witness ==
    pass.pc = "loop" /\ pass.isDone = "no" /\ pass.age > pass.delay

\* C9: with the marker present, the pass goes on to the manifests if and only
\* if now minus the newest stored last_update is strictly greater than the
\* delay; with no stored value it never does.
C9_AtRestGate ==
    [][ (IsCheckStep /\ marker[pass.cur]) =>
            /\ pass'.pc \in {"build_local", "loop"}
            /\ pass'.pc = "build_local" <=>
                 \E newest \in lastUpdate[pass.cur] :
                     /\ \A v \in lastUpdate[pass.cur] : v <= newest
                     /\ now - newest > pass.delay ]_vars

\* C9 witness: the pass went on to the manifests of a folder whose collection
\* stores several last_update values.
C9_Witness ==
    /\ pass.pc = "build_local"
    /\ Cardinality(lastUpdate[pass.cur]) > 1
    /\ pass.age = pass.delay + 1

----------------------------------------------------------------------------
(* Claims about a pass over two tracked run folders, checked under SpecTwo *)

\* The failures of one folder that the claim of isolation names: the
\* checksum build (find, hashdeep), the remote query, the reconciliation.  A
\* failed rename leaves fault at "n/a".
IsolatedFaults == {"n/a", "hashdeep_fails", "find_fails", "iquest_fails", "mismatch"}

\* C11: within one call of post_job, a failure while one folder is processed
\* (checksum build, remote query, reconciliation mismatch, rename) does not
\* keep the folders that sort after it from being processed: when the call
\* ends, no tracked folder is left in its list.
C11_FailureIsolation ==
    [][ ( /\ pass.pc # "idle" /\ pass'.pc = "idle"
          /\ pass'.exit # "killed"
          /\ pass'.fault \in IsolatedFaults ) =>
            \A i \in DOMAIN pass.queue : pass.queue[i] \notin dst_collections ]_vars

----------------------------------------------------------------------------
(* Claims about hooks run by several workers, checked under SpecHooks *)

\* C12: first_seen is written at most once per destination collection: in
\* every interleaving of initialization hooks, once a value is stored the
\* stored values never change (one value, the first one written).
C12_FirstSeenOnce ==
    [][ \A f \in Folders : firstSeen[f] # {} => firstSeen'[f] = firstSeen[f] ]_vars

\* C15: the stored last_update, read as the maximum of the stored values,
\* never decreases, in any interleaving of the per-event hooks of several
\* workers.
C15_LastUpdateMonotone ==
    [][ \A f \in Folders :
          (lastUpdate[f] # {} /\ lastUpdate'[f] # {}) =>
              MaxOf(lastUpdate'[f]) >= MaxOf(lastUpdate[f]) ]_vars

----------------------------------------------------------------------------
(* Claims about relocation and failures of a pass, checked under Spec *)

\* What the catalog and the disk hold for run folder f.
FolderState(f) ==
    <<diskManifests[f], remoteManifests[f], status[f], lastUpdate[f], firstSeen[f]>>

\* The call of the per-pass hook that is running relocated f itself.
RelocatedByThisCall(f) == pass.cur = f /\ pass.renamed = "ok"

\* C13: a run folder whose rename succeeded is in the -INGESTED tree and no
\* longer under the source root; it stays there, every later call of the
\* per-pass hook enumerates the source root without it and never makes it
\* its current folder, and nothing of it (manifest files, manifest objects,
\* metadata) changes in a later call; so no folder is relocated twice.
C13_RelocatedOnce ==
    /\ [](/\ srcRoot \cap ingested = {}
          /\ \A i \in DOMAIN pass.queue : pass.queue[i] \notin ingested
          /\ pass.renamed = "ok" => pass.cur \in ingested \ srcRoot)
    /\ [][ \A f \in ingested :
             /\ f \in ingested' /\ f \notin srcRoot'
             /\ ~RelocatedByThisCall(f) =>
                   /\ pass'.cur # f
                   /\ FolderState(f)' = FolderState(f) ]_vars

\* C13 witness: r1 was relocated and a later call of the per-pass hook has
\* enumerated the source root, finding r2 only.
C13_Witness ==
    /\ "r1" \in ingested
    /\ pass.pc = "loop" /\ pass.cur = "none" /\ pass.queue = <<"r2">>

ManifestsDiffer ==
    ~CompareManifests(pass.manLocal, pass.manIrods, pass.cur).ok

\* C17: when the reconciliation of a pass fails, the step that fails ends
\* the pass and changes neither the folder's place, nor the metadata, nor the
\* objects of the collection; and the common hook puts a manifest object,
\* renames a folder or sets status to complete only in a pass whose
\* manifests reconciled.
C17_FailedReconciliationFrame ==
    /\ [][ (pass.pc = "compare" /\ pass' # pass /\ ManifestsDiffer) =>
              /\ pass'.pc = "idle"
              /\ UNCHANGED <<srcRoot, ingested, remoteManifests, remoteObjs, avuVars>> ]_vars
    /\ [][ ( /\ handler = "common"
             /\ \/ remoteManifests' # remoteManifests
                \/ ingested' # ingested
                \/ \E f \in Folders : status'[f] = "complete" /\ status[f] # "complete" ) =>
              (pass.cmp = "ok" /\ ~ManifestsDiffer) ]_vars

\* C17 witness: the reconciliation of r1 failed and ended the pass; r1 is
\* under the source root, its collection holds no manifest object and its
\* status is not complete.
C17_Witness ==
    /\ pass.cmp = "raised" /\ pass.exit = "raised"
    /\ "r1" \in srcRoot
    /\ remoteManifests["r1"] = {}
    /\ status["r1"] # "complete"

\* The manifest file that a failed build step was writing.
PartialManifest(fault) ==
    IF fault = "iquest_fails" THEN MANIFEST_IRODS ELSE MANIFEST_LOCAL

----------------------------------------------------------------------------
(* Claim about repeated passes, checked under SpecLive *)

\* C14: a tracked run folder with its completion marker, without further
\* events, with remote replicas equal to the local files, and with every
\* command and the rename succeeding is eventually relocated with status
\* complete.
C14_EventuallyRelocated ==
    <>("r1" \in ingested /\ status["r1"] = "complete")

----------------------------------------------------------------------------
(* Claim about the session of the per-pass hook of common.py, checked       *)
(* under Spec                                                               *)

\* C21: the session that post_job of common.py opens is released when the
\* pass ends, however it ends short of the process being killed: when the
\* list of folders is through (after folders that were processed, deferred,
\* or given up at a failed hashdeep or iquest), and when an exception leaves
\* post_job (a failed reconciliation among them); and it is open only while
\* the pass runs.
C21_SessionReleased ==
    /\ [](handler = "common" => (session = "open" <=> pass.pc # "idle"))
    /\ [][ ( /\ handler = "common"
             /\ pass.pc # "idle" /\ pass'.pc = "idle"
             /\ pass'.exit \in {"returned", "raised"} ) =>
               (session = "open" /\ session' = "none") ]_vars

\* C21 witness: the reconciliation of a pass failed, the exception left
\* post_job, and the session is released.
C21_Witness ==
    /\ handler = "common"
    /\ pass.pc = "idle" /\ pass.exit = "raised" /\ pass.fault = "mismatch"
    /\ session = "none"

====
